---- MODULE Spec2Model ----
(***************************************************************************)
(* EntityTypoFixer (addons/my_custom_components.py): a pipeline component  *)
(* that holds a list of canonical entity values, rewrites extracted entity *)
(* values to their best fuzzy match, and persists / reloads the list.      *)
(*                                                                         *)
(* Texts are sequences of one-character strings.  A Python dict is a       *)
(* record; a key that may be missing is a field that may be missing.       *)
(***************************************************************************)
EXTENDS Integers, Sequences, FiniteSets, TLC

VARIABLES
    alive,          \* FALSE when construction raised (no instance exists)
    config,         \* the component_config the instance was constructed with
    entities,       \* self.entities, the canonical list
    score_cutoff,   \* self.score_cutoff
    fs,             \* the file system: path -> file content or NoFile
    ret,            \* what the last persist call returned, and its arguments
    message,        \* the ENTITIES of the message after the last process call
    pre,            \* the ENTITIES of that message before the call
    given,          \* the list most recently given by train / construction / reload
    op              \* the last call made on the component

vars == <<alive, config, entities, score_cutoff, fs, ret, message, pre, given, op>>

----------------------------------------------------------------------------
(* Bounds *)

MaxEntities == 2        \* longest canonical list
MaxRecords == 2         \* most entity records in one message
MaxProcs == 1           \* most prior entries of a record's processors

----------------------------------------------------------------------------
(* Python values *)

None == [t |-> "None"]

Min(a, b) == IF a <= b THEN a ELSE b
Max(a, b) == IF a >= b THEN a ELSE b

\* s[lo:hi] of Python, 0-based, hi exclusive, clamped to the text
Slice(s, lo, hi) == SubSeq(s, lo + 1, Min(hi, Len(s)))

PyStr(s) == [t |-> "str", s |-> s]
PyInt(n) == [t |-> "int", n |-> n]

DigitChar(d) ==
    CASE d = 0 -> "0" [] d = 1 -> "1" [] d = 2 -> "2" [] d = 3 -> "3"
      [] d = 4 -> "4" [] d = 5 -> "5" [] d = 6 -> "6" [] d = 7 -> "7"
      [] d = 8 -> "8" [] d = 9 -> "9"

RECURSIVE Decimal(_)
Decimal(n) == IF n < 10 THEN <<DigitChar(n)>>
              ELSE Decimal(n \div 10) \o <<DigitChar(n % 10)>>

\* str(entity["value"])
str(v) == IF v.t = "str" THEN v.s ELSE Decimal(v.n)

----------------------------------------------------------------------------
(* The texts of the model *)

abc == <<"a", "b", "c">>
Abc == <<"A", "b", "c">>
abd == <<"a", "b", "d">>
abcd == <<"a", "b", "c", "d">>
ab == <<"a", "b">>
bang == <<"!">>
abcq == <<"a", "b", "c", "\"">>
seven == <<"7">>
\* two canonical texts one character apart, and a value one character from
\* the shorter: long enough for their ratio to round to 100
Alphabet == <<"a", "b", "c", "d", "e", "f", "g", "h", "i", "j", "k", "l", "m",
              "n", "o", "p", "q", "r", "s", "t", "u", "v", "w", "x", "y", "z",
              "0", "1", "2", "3", "4", "5", "6", "7", "8", "9">>
longA == [i \in 1..100 |-> Alphabet[((i - 1) % Len(Alphabet)) + 1]]
longAa == longA \o <<"a">>
longAb == longA \o <<"b">>

\* canonical values (keys of the training corpus, persisted strings)
Canon == {abc, Abc, abcd, seven}
\* values of extracted entities
Values == {PyStr(Abc), PyStr(abd), PyStr(ab), PyStr(bang), PyInt(7)}
\* the same, for long texts
LongCanon == {longA, longAa, abc, Abc}
LongValues == {PyStr(longAb), PyStr(abd), PyStr(Abc)}
\* every text that is scored
Texts == Canon \cup {str(v) : v \in Values} \cup LongCanon
         \cup {str(v) : v \in LongValues} \cup {abcq}

----------------------------------------------------------------------------
(* fuzzywuzzy: utils.full_process, fuzz.ratio, fuzz.partial_ratio,        *)
(* fuzz.WRatio, process.extractOne, as called at fix_entity_typo.          *)

IsAlnum(c) == c \in {Alphabet[i] : i \in 1..Len(Alphabet)} \cup {"A"}
Lower(c) == IF c = "A" THEN "a" ELSE c

RECURSIVE LStrip(_)
LStrip(s) == IF s # <<>> /\ Head(s) = " " THEN LStrip(Tail(s)) ELSE s

RECURSIVE RStrip(_)
RStrip(s) == IF s # <<>> /\ s[Len(s)] = " "
             THEN RStrip(SubSeq(s, 1, Len(s) - 1)) ELSE s

\* non-alphanumerics become blanks, lower case, strip
full_process(s) ==
    RStrip(LStrip([i \in 1..Len(s) |-> IF IsAlnum(s[i]) THEN Lower(s[i]) ELSE " "]))

\* int(round(num / den)), Python 3 rounding (half to even)
intr(num, den) ==
    LET q == num \div den
        r == num % den
    IN  IF 2 * r < den THEN q
        ELSE IF 2 * r > den THEN q + 1
        ELSE IF q % 2 = 0 THEN q ELSE q + 1

SetMax(S) == CHOOSE x \in S : \A y \in S : x >= y
SetMin(S) == CHOOSE x \in S : \A y \in S : x <= y

\* length of the common run of a[i:ahi] and b[j:bhi]
run(a, b, i, ahi, j, bhi) ==
    SetMax({k \in 0..Min(ahi - i, bhi - j) : \A d \in 1..k : a[i + d] = b[j + d]})

\* difflib.SequenceMatcher.find_longest_match: the longest block, then the
\* one starting earliest in a, then earliest in b
first_in_b(runs, k, i) ==
    <<i, SetMin({c[2] : c \in {d \in DOMAIN runs : runs[d] = k /\ d[1] = i}}), k>>

first_in_a(runs, k) ==
    first_in_b(runs, k, SetMin({c[1] : c \in {d \in DOMAIN runs : runs[d] = k}}))

longest_run(runs, alo, blo) ==
    IF \A c \in DOMAIN runs : runs[c] = 0 THEN <<alo, blo, 0>>
    ELSE first_in_a(runs, SetMax({runs[c] : c \in DOMAIN runs}))

find_longest_match(a, b, alo, ahi, blo, bhi) ==
    longest_run([c \in (alo..(ahi - 1)) \X (blo..(bhi - 1)) |->
                    run(a, b, c[1], ahi, c[2], bhi)], alo, blo)

RECURSIVE matching_blocks(_, _, _, _, _, _)

\* the blocks left of the longest block m, m itself, the blocks right of it
blocks_around(a, b, alo, ahi, blo, bhi, m) ==
    IF m[3] = 0 THEN <<>>
    ELSE (IF alo < m[1] /\ blo < m[2]
          THEN matching_blocks(a, b, alo, m[1], blo, m[2]) ELSE <<>>)
         \o <<m>> \o
         (IF m[1] + m[3] < ahi /\ m[2] + m[3] < bhi
          THEN matching_blocks(a, b, m[1] + m[3], ahi, m[2] + m[3], bhi) ELSE <<>>)

matching_blocks(a, b, alo, ahi, blo, bhi) ==
    blocks_around(a, b, alo, ahi, blo, bhi,
                  find_longest_match(a, b, alo, ahi, blo, bhi))

\* SequenceMatcher.get_matching_blocks, with its closing (la, lb, 0) block
get_matching_blocks(a, b) ==
    matching_blocks(a, b, 0, Len(a), 0, Len(b)) \o <<<<Len(a), Len(b), 0>>>>

RECURSIVE SumSizes(_)
SumSizes(blocks) == IF blocks = <<>> THEN 0
                    ELSE Head(blocks)[3] + SumSizes(Tail(blocks))

\* numerator and denominator of SequenceMatcher.ratio() = 2.0 * M / T
MatchedTwice(a, b) == 2 * SumSizes(get_matching_blocks(a, b))

\* fuzz.ratio
ratio(s1, s2) ==
    IF s1 = s2 THEN 100
    ELSE IF Len(s1) = 0 \/ Len(s2) = 0 THEN 0
    ELSE intr(100 * MatchedTwice(s1, s2), Len(s1) + Len(s2))

\* 100 * (num / den) as fuzz.partial_ratio scores it: a ratio above .995
\* counts as 100 at once, any other is rounded
partial_score(num, den) ==
    IF 1000 * num > 995 * den THEN 100 ELSE intr(100 * num, den)

\* fuzz.partial_ratio: for every matching block of the shorter text in the
\* longer, the ratio of the shorter text to the part of the longer one the
\* block lines it up with; the best of them
long_starts(blocks) == {Max(blocks[n][2] - blocks[n][1], 0) : n \in 1..Len(blocks)}

substr_score(shorter, long_substr) ==
    partial_score(MatchedTwice(shorter, long_substr), Len(shorter) + Len(long_substr))

best_partial(shorter, longer) ==
    SetMax({substr_score(shorter, Slice(longer, long_start, long_start + Len(shorter))) :
                long_start \in long_starts(get_matching_blocks(shorter, longer))})

partial_ratio(s1, s2) ==
    IF s1 = s2 THEN 100
    ELSE IF Len(s1) = 0 \/ Len(s2) = 0 THEN 0
    ELSE best_partial(IF Len(s1) <= Len(s2) THEN s1 ELSE s2,
                      IF Len(s1) <= Len(s2) THEN s2 ELSE s1)

\* fuzz.WRatio, the weighting: unbase_scale = .95, partial_scale = .90, or
\* .60 when one text is over 8 times longer than the other.  Every text of
\* the model is one token once processed, so token_sort_ratio and
\* token_set_ratio score what ratio scores, and their partial variants what
\* partial_ratio scores.
weigh_partial(base, partial, partial_scale) ==
    intr(Max(Max(base * 10000, partial * partial_scale * 100),
             Max(partial * 95 * partial_scale, partial * 95 * partial_scale)), 10000)

weigh_full(base) ==
    intr(Max(base * 10000, Max(base * 95 * 100, base * 95 * 100)), 10000)

\* fuzz.WRatio on processed texts
WRatio(p1, p2) ==
    IF Len(p1) = 0 \/ Len(p2) = 0 THEN 0
    ELSE IF 2 * Max(Len(p1), Len(p2)) < 3 * Min(Len(p1), Len(p2))       \* len_ratio < 1.5
         THEN weigh_full(ratio(p1, p2))
         ELSE weigh_partial(ratio(p1, p2), partial_ratio(p1, p2),
                            IF Max(Len(p1), Len(p2)) > 8 * Min(Len(p1), Len(p2))
                            THEN 60 ELSE 90)

\* the scorer extractOne applies: WRatio of the processed query and the
\* processed choice
Processed == {full_process(s) : s \in Texts}

wratio ==
    LET table == [p \in Processed \X Processed |-> WRatio(p[1], p[2])]
    IN  IF table = <<>> THEN <<>> ELSE table

scores ==
    LET table == [p \in Texts \X Texts |->
                     wratio[<<full_process(p[1]), full_process(p[2])>>]]
    IN  IF table = <<>> THEN <<>> ELSE table

scorer(query, choice) == scores[<<query, choice>>]

\* process.extractOne(query, choices, score_cutoff=...): the choices scoring
\* at least the cutoff, the best of them, the first of the best; None if none
\* a variant that takes the last of the best
first_best_last(kept) ==
    CHOOSE x \in kept : \A y \in kept : x[2] > y[2] \/ (x[2] = y[2] /\ x[1] >= y[1])

first_best(kept) ==
    CHOOSE x \in kept : \A y \in kept : x[2] > y[2] \/ (x[2] = y[2] /\ x[1] <= y[1])

best_or_none(choices, kept) ==
    IF kept = {} THEN None
    ELSE [t |-> "tuple", choice |-> choices[first_best(kept)[1]],
          score |-> first_best(kept)[2]]

\* a variant that keeps only the scores above the cutoff
extractWithoutOrder_strict(query, choices, cutoff) ==
    {x \in {<<i, scorer(query, choices[i])>> : i \in 1..Len(choices)} : x[2] > cutoff}

\* a variant that keeps every score
extractWithoutOrder_nocutoff(query, choices, cutoff) ==
    {<<i, scorer(query, choices[i])>> : i \in 1..Len(choices)}

extractWithoutOrder(query, choices, cutoff) ==
    {x \in {<<i, scorer(query, choices[i])>> : i \in 1..Len(choices)} : x[2] >= cutoff}

extractOne(query, choices, cutoff) ==
    best_or_none(choices, extractWithoutOrder(query, choices, cutoff))

----------------------------------------------------------------------------
(* EntityTypoFixer *)

name == "EntityTypoFixer"

\* defaults = {"score_cutoff": 80}
defaults == [score_cutoff |-> 80]

\* dict.get(key, default)
Get(d, key, default) == IF key \in DOMAIN d THEN d[key] ELSE default

\* __init__: self.entities = entities if entities else []
init_entities(arg) == IF arg = None THEN <<>>
                      ELSE IF arg.items = <<>> THEN <<>> ELSE arg.items

\* a variant that ignores the configuration
init_score_cutoff_default(component_config) == defaults.score_cutoff

\* __init__: self.score_cutoff = component_config.get("score_cutoff", defaults[...])
init_score_cutoff(component_config) ==
    Get(component_config, "score_cutoff", defaults.score_cutoff)

\* add_processor_name
add_processor_name(entity) ==
    IF "processors" \in DOMAIN entity
    THEN [entity EXCEPT !.processors = Append(@, name)]
    ELSE [k \in DOMAIN entity \cup {"processors"} |->
            IF k = "processors" THEN <<name>> ELSE entity[k]]

\* a variant without the test that the match differs from the value
fix_matched_always(entity, entity_value, fuzzy_match) ==
    IF fuzzy_match # None
    THEN add_processor_name([entity EXCEPT !.value = PyStr(fuzzy_match.choice)])
    ELSE entity

\* a variant that writes the processed text of the match
fix_matched_processed(entity, entity_value, fuzzy_match) ==
    IF fuzzy_match # None
    THEN IF fuzzy_match.choice # entity_value
         THEN add_processor_name(
                [entity EXCEPT !.value = PyStr(full_process(fuzzy_match.choice))])
         ELSE entity
    ELSE entity

\* the body of the loop of fix_entity_typo, for one record, from
\* `if fuzzy_match:` on
fix_matched(entity, entity_value, fuzzy_match) ==
    IF fuzzy_match # None
    THEN IF fuzzy_match.choice # entity_value
         THEN add_processor_name([entity EXCEPT !.value = PyStr(fuzzy_match.choice)])
         ELSE entity
    ELSE entity

\* the body of the loop of fix_entity_typo, for one record
fix_one(entity, canon, cutoff) ==
    fix_matched(entity, str(entity.value), extractOne(str(entity.value), canon, cutoff))

\* fix_entity_typo: every record of the list, in order, in place
fix_entity_typo(records, canon, cutoff) ==
    [i \in 1..Len(records) |-> fix_one(records[i], canon, cutoff)]

\* list(training_data.entity_synonyms.keys()); the dict is its items in order
keys(d) == [i \in 1..Len(d) |-> d[i][1]]

\* json.dumps of a list of strings
RECURSIVE json_escape(_)
json_escape(s) ==
    IF s = <<>> THEN <<>>
    ELSE (IF Head(s) \in {"\"", "\\"} THEN <<"\\", Head(s)>> ELSE <<Head(s)>>)
         \o json_escape(Tail(s))

RECURSIVE json_join(_)
json_join(list) ==
    IF list = <<>> THEN <<>>
    ELSE <<"\"">> \o json_escape(Head(list)) \o <<"\"">>
         \o (IF Len(list) > 1 THEN <<",", " ">> ELSE <<>>) \o json_join(Tail(list))

write_json(list) == <<"[">> \o json_join(list) \o <<"]">>

\* json.loads of an array of strings
RECURSIVE json_string(_, _)
json_string(s, cur) ==
    IF Head(s) = "\"" THEN [text |-> cur, rest |-> Tail(s)]
    ELSE IF Head(s) = "\\" THEN json_string(Tail(Tail(s)), Append(cur, s[2]))
    ELSE json_string(Tail(s), Append(cur, Head(s)))

RECURSIVE json_items(_, _)
json_items(s, acc) ==
    IF Head(s) = "]" THEN acc
    ELSE IF Head(s) \in {",", " "} THEN json_items(Tail(s), acc)
    ELSE LET r == json_string(Tail(s), <<>>)
         IN  json_items(r.rest, Append(acc, r.text))

read_json_file(text) == json_items(Tail(text), <<>>)

\* file_name + ".json"
json_suffix == <<".", "j", "s", "o", "n">>
\* a variant that drops the directory
path_join_flat(model_dir, file_name) == file_name

\* os.path.join(model_dir, file_name)
path_join(model_dir, file_name) == model_dir \o <<"/">> \o file_name
isfile(files, path) == path \in DOMAIN files

\* persist: the file it writes (if any) and the descriptor it returns
persist_file_name(file_name) == file_name \o json_suffix

\* a variant that writes the file outside model_dir
persist_fs_nodir(files, canon, file_name, model_dir) ==
    IF canon # <<>>
    THEN [p \in DOMAIN files \cup {persist_file_name(file_name)} |->
            IF p = persist_file_name(file_name) THEN write_json(canon) ELSE files[p]]
    ELSE files

persist_fs(files, canon, file_name, model_dir) ==
    IF canon # <<>>
    THEN LET entity_file == path_join(model_dir, persist_file_name(file_name))
         IN  [p \in DOMAIN files \cup {entity_file} |->
                IF p = entity_file THEN write_json(canon) ELSE files[p]]
    ELSE files

\* a variant that names the file whether or not it wrote one
persist_return_named(canon, file_name) == [file |-> PyStr(persist_file_name(file_name))]

persist_return(canon, file_name) ==
    IF canon # <<>> THEN [file |-> PyStr(persist_file_name(file_name))]
    ELSE [file |-> None]

\* `not file_name`
Falsy(x) == x = None \/ x = PyStr(<<>>)

\* load: the entities argument it hands to the constructor
load_entities(files, meta, model_dir) ==
    LET file_name == Get(meta, "file", None)
    IN  IF Falsy(file_name) THEN None
        ELSE LET entities_file == path_join(model_dir, file_name.s)
             IN  IF isfile(files, entities_file)
                 THEN [t |-> "list", items |-> read_json_file(files[entities_file])]
                 ELSE None

----------------------------------------------------------------------------
(* Inputs the host supplies *)

SeqsUpTo(S, n) == UNION {[1..k -> S] : k \in 0..n}
Distinct(s) == \A i, j \in 1..Len(s) : i # j => s[i] # s[j]

\* component_config of the pipeline: always carries the component's name
Configs == {[name |-> name],
            [name |-> name, score_cutoff |-> 0],
            [name |-> name, score_cutoff |-> 86]}

\* training corpora: entity_synonyms is a dict, so its keys are distinct
CorpusKeys == {abc, abcq}
Corpora == {[entity_synonyms |-> [i \in 1..Len(ks) |-> <<ks[i], abc>>]] :
                ks \in {s \in SeqsUpTo(CorpusKeys, MaxEntities) : Distinct(s)}}

\* entity records: a value, other fields, and perhaps a processors list
Fresh(V) == {[entity |-> "city", value |-> v] : v \in V}
Records(V) ==
    Fresh(V)
    \cup {[entity |-> "city", value |-> v, processors |-> [i \in 1..n |-> "Other"]] :
            v \in V, n \in 1..MaxProcs}
\* a message carries one record with any history, or several records as the
\* extractor leaves them
Messages(V) == {<<r>> : r \in Records(V)} \cup SeqsUpTo(Fresh(V), MaxRecords)

\* the messages of the life-cycle specification
LifeMessages == {<<[entity |-> "city", value |-> PyStr(Abc)]>>,
                 <<[entity |-> "city", value |-> PyStr(abd),
                    processors |-> <<"Other">>]>>}

Stems == {<<"f">>}
Dirs == {<<"m", "1">>, <<"m", "2">>}

\* descriptors the host may hand to load
Metas == {[file |-> None],
          [file |-> PyStr(<<"f">> \o json_suffix)],
          [file |-> PyStr(<<"g">> \o json_suffix)],
          [file |-> PyStr(<<"f">> \o json_suffix), score_cutoff |-> 86],
          [name |-> name]}

NoRet == [t |-> "none"]

----------------------------------------------------------------------------
(* Construction *)

\* EntityTypoFixer(component_config, entities); component_config.get raises
\* on None, and then there is no instance
Constructed(component_config, arg) ==
    /\ alive = (component_config # None)
    /\ config = component_config
    /\ entities = (IF component_config = None THEN <<>> ELSE init_entities(arg))
    /\ score_cutoff = (IF component_config = None THEN defaults.score_cutoff
                       ELSE init_score_cutoff(component_config))
    /\ given = entities
    /\ fs = <<>>
    /\ ret = NoRet
    /\ message = <<>>
    /\ pre = <<>>
    /\ op = [name |-> "init"]

\* the host creates the component from the pipeline configuration
Init == \E c \in Configs \cup {None} : Constructed(c, None)

\* an instance holding any canonical list
InitFix == \E c \in Configs, l \in SeqsUpTo(Canon, MaxEntities) :
               Constructed(c, [t |-> "list", items |-> l])

InitLong == \E c \in Configs, l \in SeqsUpTo(LongCanon, MaxEntities) :
                Constructed(c, [t |-> "list", items |-> l])

----------------------------------------------------------------------------
(* Operations *)

\* a variant that adds the keys to the list it holds
Train_extend(training_data) ==
    /\ alive
    /\ entities' = entities \o keys(training_data.entity_synonyms)
    /\ given' = keys(training_data.entity_synonyms)
    /\ op' = [name |-> "train"]
    /\ UNCHANGED <<alive, config, score_cutoff, fs, ret, message, pre>>

\* train(training_data)
Train(training_data) ==
    /\ alive
    /\ entities' = keys(training_data.entity_synonyms)
    /\ given' = keys(training_data.entity_synonyms)
    /\ op' = [name |-> "train"]
    /\ UNCHANGED <<alive, config, score_cutoff, fs, ret, message, pre>>

\* process(message): message.get(ENTITIES, []), fix_entity_typo, message.set
Process(records) ==
    /\ alive
    /\ pre' = records
    /\ message' = fix_entity_typo(records, entities, score_cutoff)
    /\ op' = [name |-> "process"]
    /\ UNCHANGED <<alive, config, entities, score_cutoff, fs, ret, given>>

\* process called again on the message the last process call left
Reprocess ==
    /\ alive
    /\ op.name \in {"process", "reprocess"}
    /\ pre' = message
    /\ message' = fix_entity_typo(message, entities, score_cutoff)
    /\ op' = [name |-> "reprocess"]
    /\ UNCHANGED <<alive, config, entities, score_cutoff, fs, ret, given>>

\* persist(file_name, model_dir)
Persist(file_name, model_dir) ==
    /\ alive
    /\ fs' = persist_fs(fs, entities, file_name, model_dir)
    /\ ret' = [t |-> "ret", desc |-> persist_return(entities, file_name),
               model_dir |-> model_dir, list |-> entities]
    /\ op' = [name |-> "persist"]
    /\ UNCHANGED <<alive, config, entities, score_cutoff, message, pre, given>>

\* load(meta, model_dir): the loaded instance takes the place of the old one
Load(meta, model_dir) ==
    LET arg == load_entities(fs, meta, model_dir)
    IN  /\ alive' = TRUE
        /\ config' = meta
        /\ entities' = init_entities(arg)
        /\ score_cutoff' = init_score_cutoff(meta)
        /\ given' = init_entities(arg)
        /\ op' = [name |-> "load", meta |-> meta, model_dir |-> model_dir]
        /\ UNCHANGED <<fs, ret, message, pre>>

Next ==
    \/ \E td \in Corpora : Train(td)
    \/ \E m \in LifeMessages : Process(m)
    \/ \E f \in Stems, d \in Dirs : Persist(f, d)
    \/ \E meta \in Metas, d \in Dirs : Load(meta, d)

\* the correction alone: the host hands the fresh instance one message, and
\* then hands it its own output again and again
FirstCall == op.name = "init"

NextFix ==
    \/ \E m \in Messages(Values) : FirstCall /\ Process(m)
    \/ Reprocess

NextLong ==
    \/ \E m \in Messages(LongValues) : FirstCall /\ Process(m)
    \/ Reprocess

Spec == Init /\ [][Next]_vars
SpecFix == InitFix /\ [][NextFix]_vars
SpecLong == InitLong /\ [][NextLong]_vars

----------------------------------------------------------------------------
(* What the claims speak of: the scores of a text against the canonical    *)
(* list, and the records of the last process call.                         *)

Processing == alive /\ op.name \in {"process", "reprocess"}

\* the positions of the canonical list that score highest against q
Tops(q, L) == {j \in 1..Len(L) : \A k \in 1..Len(L) : scorer(q, L[j]) >= scorer(q, L[k])}
\* some canonical string scores at least c against q
Reaches(q, L, c) == \E j \in 1..Len(L) : scorer(q, L[j]) >= c
\* the first of the highest-scoring canonical strings
FirstTop(q, L) == L[SetMin(Tops(q, L))]

\* the processors a record has once the component's name is appended
Appended(record) ==
    IF "processors" \in DOMAIN record THEN record.processors \o <<name>> ELSE <<name>>

\* C1: a record whose best-scoring canonical string m scores at least the
\* cutoff (a score equal to the cutoff included) and differs from str(value)
\* has value m after process, and the component's name appended exactly once
\* to its processors: a new one-element list if the field was absent, the
\* prior entries in order and then the name otherwise.
C1_RewritesToBestMatch ==
    Processing =>
        /\ Len(message) = Len(pre)
        /\ \A i \in 1..Len(pre) :
            (/\ Reaches(str(pre[i].value), entities, score_cutoff)
             /\ FirstTop(str(pre[i].value), entities) # str(pre[i].value))
            => /\ message[i].value = PyStr(FirstTop(str(pre[i].value), entities))
               /\ "processors" \in DOMAIN message[i]
               /\ message[i].processors = Appended(pre[i])

\* a record with prior processors is rewritten on a score equal to the cutoff
C1_Witness ==
    /\ op.name = "process"
    /\ \E i \in 1..Len(pre) :
        /\ "processors" \in DOMAIN pre[i]
        /\ Reaches(str(pre[i].value), entities, score_cutoff)
        /\ ~Reaches(str(pre[i].value), entities, score_cutoff + 1)
        /\ message[i].value # pre[i].value
        /\ message[i].processors = <<"Other", name>>

\* C2: a record against which no canonical string scores at or above the
\* cutoff (the empty list included) is left as it was by process: same value,
\* same processors, still absent if absent.
C2_BelowCutoffUnchanged ==
    Processing =>
        /\ Len(message) = Len(pre)
        /\ \A i \in 1..Len(pre) :
            ~Reaches(str(pre[i].value), entities, score_cutoff) => message[i] = pre[i]

\* a record is left alone although some canonical string scores above zero
C2_Witness ==
    /\ op.name = "process"
    /\ \E i \in 1..Len(pre) :
        /\ ~Reaches(str(pre[i].value), entities, score_cutoff)
        /\ Reaches(str(pre[i].value), entities, 1)
        /\ "processors" \notin DOMAIN message[i]

\* C3: a record whose selected best match equals str(value) exactly is left
\* as it was by process, value and processors, although the match's score
\* is at or above the cutoff.
C3_ExactMatchUnchanged ==
    Processing =>
        \A i \in 1..Len(pre) :
            (/\ Reaches(str(pre[i].value), entities, score_cutoff)
             /\ FirstTop(str(pre[i].value), entities) = str(pre[i].value))
            => message[i] = pre[i]

\* a record whose value is the integer 7 is matched by the canonical "7"
C3_Witness ==
    /\ op.name = "process"
    /\ \E i \in 1..Len(pre) :
        /\ pre[i].value = PyInt(7)
        /\ Reaches(str(pre[i].value), entities, score_cutoff)
        /\ FirstTop(str(pre[i].value), entities) = seven
        /\ message[i].value = PyInt(7)

\* C9: when several canonical strings tie for the highest score, at or above
\* the cutoff, the one that comes first in the canonical list is selected:
\* the record is rewritten to it, even if a later tied string equals the
\* original value, and left alone only if that first string is the value.
C9_FirstOfTiedWins ==
    Processing =>
        \A i \in 1..Len(pre) :
            (/\ Cardinality(Tops(str(pre[i].value), entities)) >= 2
             /\ Reaches(str(pre[i].value), entities, score_cutoff))
            => \E j \in Tops(str(pre[i].value), entities) :
                /\ \A k \in Tops(str(pre[i].value), entities) : j <= k
                /\ IF entities[j] = str(pre[i].value)
                   THEN message[i] = pre[i]
                   ELSE message[i].value = PyStr(entities[j])

\* the value equals a later tied string and is rewritten to the first
C9_Witness ==
    /\ op.name = "process"
    /\ \E i \in 1..Len(pre) : \E j, k \in Tops(str(pre[i].value), entities) :
        /\ j < k
        /\ entities[k] = str(pre[i].value)
        /\ entities[j] # entities[k]
        /\ message[i].value = PyStr(entities[j])

\* C10 as claimed: a second process call on the already processed records
\* changes no value and appends nothing to any processors.
C10_SecondPassChangesNothing ==
    (alive /\ op.name = "reprocess") => message = pre

\* any two canonical strings scoring 100 against each other are the same
\* text once processed
NoRoundedTwins(L) ==
    \A i, j \in 1..Len(L) :
        scorer(L[i], L[j]) = 100 => full_process(L[i]) = full_process(L[j])

\* C10, amended: provided that no two canonical strings with different
\* processed texts score 100 against each other, a second process call on
\* the already processed records changes no value and appends nothing to any
\* processors; the number and order of the records is kept in any case.
C10_SecondPassStable ==
    (alive /\ op.name = "reprocess") =>
        /\ Len(message) = Len(pre)
        /\ NoRoundedTwins(entities) => message = pre

\* the second pass runs on a record the first pass rewrote
C10_Witness ==
    /\ op.name = "reprocess"
    /\ NoRoundedTwins(entities)
    /\ Len(pre) = 2
    /\ \E i \in 1..Len(pre) :
        /\ "processors" \in DOMAIN pre[i]
        /\ pre[i].processors[Len(pre[i].processors)] = name
        /\ Cardinality(Tops(str(pre[i].value), entities)) >= 2

----------------------------------------------------------------------------
(* Persistence *)

\* load was called with the descriptor and the directory of the last persist
LoadedLastPersist ==
    /\ alive
    /\ op.name = "load"
    /\ ret.t = "ret"
    /\ op.meta = ret.desc
    /\ op.model_dir = ret.model_dir

\* C4: after any sequence of train, process and persist calls, loading with
\* the descriptor the last persist returned and the same model_dir gives an
\* instance whose canonical list is the non-empty list held at that persist,
\* element for element in the same order.
C4_PersistLoadRoundTrip ==
    (LoadedLastPersist /\ ret.list # <<>>) => entities = ret.list

\* a list of two strings, one of them with a quote in it, comes back
C4_Witness ==
    /\ LoadedLastPersist
    /\ ret.list = <<abcq, abc>>
    /\ entities = <<abcq, abc>>

\* C5: persist of an empty canonical list writes nothing (the file system,
\* files of earlier persists included, is as before) and returns
\* {"file": None}; load with that descriptor gives an instance with an empty
\* canonical list, whatever files there are.
C5_EmptyPersist ==
    /\ [][\A f \in Stems, d \in Dirs :
            (Persist(f, d) /\ entities = <<>>)
            => (fs' = fs /\ ret'.desc = [file |-> None])]_vars
    /\ []((alive /\ op.name = "load" /\ op.meta = [file |-> None]) => entities = <<>>)

\* an empty list was persisted next to an earlier file, and then loaded
C5_Witness ==
    /\ op.name = "load"
    /\ op.meta = [file |-> None]
    /\ ret.t = "ret"
    /\ ret.list = <<>>
    /\ ret.desc = [file |-> None]
    /\ DOMAIN fs # {}
    /\ entities = <<>>

\* the file a descriptor names, in the directory load was given
NamedFile == op.model_dir \o <<"/">> \o op.meta.file.s

NamesFile ==
    /\ alive
    /\ op.name = "load"
    /\ "file" \in DOMAIN op.meta
    /\ op.meta.file # None
    /\ op.meta.file.s # <<>>

\* C6: load with a descriptor naming a file that is not in model_dir gives
\* an instance with an empty canonical list, without a fault; when the file
\* is there, the canonical list is the JSON array parsed from it.
C6_MissingFileIsEmpty ==
    NamesFile =>
        IF NamedFile \in DOMAIN fs
        THEN entities = read_json_file(fs[NamedFile])
        ELSE entities = <<>>

\* the named file is missing although the model has persisted a file
C6_Witness ==
    /\ NamesFile
    /\ NamedFile \notin DOMAIN fs
    /\ DOMAIN fs # {}
    /\ op.meta.file = ret.desc.file
    /\ entities = <<>>

\* C7: in every state reached by train, process and persist calls the
\* canonical list is the key sequence of the last train call, in corpus
\* order, or the list given at construction or reload if train was not
\* called since.
C7_ListOnlyReplacedByTrain == alive => entities = given

\* trained, persisted and processed: the list is still the trained one
C7_Witness ==
    /\ op.name = "process"
    /\ message # pre
    /\ ret.t = "ret"
    /\ ret.list # entities
    /\ entities = <<abc, abcq>>
    /\ given = <<abc, abcq>>

\* C8: the score cutoff is the score_cutoff entry of the configuration the
\* instance was constructed with, 80 if it has none, in every state: train,
\* process and persist do not change it.
C8_CutoffFixedAtConstruction ==
    alive => score_cutoff = (IF "score_cutoff" \in DOMAIN config
                             THEN config.score_cutoff ELSE 80)

\* no score_cutoff configured; trained, persisted and processed at 80
C8_Witness ==
    /\ alive
    /\ "score_cutoff" \notin DOMAIN config
    /\ score_cutoff = 80
    /\ op.name = "process"
    /\ ret.t = "ret"
    /\ entities # <<>>

====
